---- MODULE Spec2Model ----
(***************************************************************************)
(* Stroke detector of the erg video analysis (docs/lib/kinematics.mjs,     *)
(* class StrokeState) and the page that drives it (landmark smoothing,     *)
(* adaptive catch threshold, reset) as a state machine.                    *)
(*                                                                         *)
(* Numbers.  Timestamps are integers in microseconds (1 s = 1000000), so   *)
(* that the three time constants of the code (1e-6 s, 1e-3 s, 0.1 s) are   *)
(* all whole numbers.  Angles are whole degrees.  A JavaScript number that *)
(* is handed to update() is a record [fin, v]: fin = FALSE is a non-finite *)
(* value (NaN).  A quotient the code computes (derivative, trailing mean,  *)
(* spm, drr) is an exact fraction [n, d] in lowest terms with d > 0; the   *)
(* JavaScript null is the fraction with d = 0.  The catch threshold, the   *)
(* landmark coordinates and the landmark alpha are fractions as well.      *)
(***************************************************************************)
EXTENDS Integers, Sequences, FiniteSets, TLC

VARIABLES
    stroke,     \* the StrokeState instance: its fields
    lastCall,   \* the method called last and its angle argument
    ret,        \* the value that call returned
    page        \* the module-level variables of the page script

vars == <<stroke, lastCall, ret, page>>

----------------------------------------------------------------------------
(* Bounds of the model and constants of the program *)

MaxSamples == 4         \* accepted samples per run of Spec
MaxLong == 6            \* accepted samples per run of SpecLong
MaxFrames == 7          \* accepted samples per run of SpecFrames
MaxWave == 14           \* samples per run of SpecWave
WavePeriod == 6         \* samples per period in SpecWave

DtFloor == 1            \* Math.max(1e-6, t - t0)
DupEps == 1000          \* Math.abs(last - t) < 1e-3
MinPeriod == 100000     \* dt > 0.1
UsPerMinute == 60000000 \* 60 / avg, with avg in seconds

\* tenths of a second, in microseconds
Sec(tenths) == tenths * 100000

----------------------------------------------------------------------------
(* JavaScript values *)

Fin(v) == [fin |-> TRUE, v |-> v]
NaN == [fin |-> FALSE, v |-> 0]

\* Number.isFinite without the test
isFiniteAlways(x) == TRUE

\* Number.isFinite(angle)
isFinite(x) == x.fin

Null == [n |-> 0, d |-> 0]
Undefined == [n |-> 0, d |-> -1]

Abs(x) == IF x < 0 THEN -x ELSE x
Max(a, b) == IF a >= b THEN a ELSE b
Min(a, b) == IF a <= b THEN a ELSE b

RECURSIVE GCD(_, _)
GCD(a, b) == IF b = 0 THEN a ELSE GCD(b, a % b)

\* the quotient n / d of two numbers, d # 0
Div(n, d) ==
    LET g == GCD(Abs(n), Abs(d))
        s == IF d < 0 THEN -1 ELSE 1
    IN  [n |-> s * (n \div g), d |-> s * (d \div g)]

Last(s) == s[Len(s)]

----------------------------------------------------------------------------
(* Geometry: angleAt and angleToVertical.  Points have whole coordinates   *)
(* and angles are given to the nearest degree, exactly where the angle is  *)
(* a whole number of degrees.                                              *)

\* 10^6 * cos^2((k - 1/2) degrees) for k = 1..90
CosSqHalf ==
    << 999924, 999315, 998097, 996273, 993844, 990814, 987185, 982963, 978152,
       972759, 966790, 960252, 953154, 945503, 937310, 928584, 919335, 909576,
       899318, 888573, 877355, 865677, 853553, 840999, 828030, 814660, 800908,
       786788, 772320, 757519, 742405, 726995, 711309, 695366, 679184, 662784,
       646186, 629410, 612476, 595404, 578217, 560935, 543578, 526168, 508726,
       491274, 473832, 456422, 439065, 421783, 404596, 387524, 370590, 353814,
       337216, 320816, 304634, 288691, 273005, 257595, 242481, 227680, 213212,
       199092, 185340, 171970, 159001, 146447, 134323, 122645, 111427, 100682,
        90424,  80665,  71416,  62690,  54497,  46846,  39748,  33210,  27241,
        21848,  17037,  12815,   9186,   6156,   3727,   1903,    685,     76 >>

CosSqScale == 1000000

\* Math.acos(num / sqrt(den2)) * 180 / Math.PI for den2 > 0, in degrees
AcosDeg(num, den2) ==
    LET r == Cardinality({k \in 1..90 :
                             num * num * CosSqScale <= CosSqHalf[k] * den2})
    IN  IF num >= 0 THEN r ELSE 180 - r

\* Math.hypot(x, y) squared
Hypot2(x, y) == x * x + y * y

\* angleAt with the cross product in place of the dot product
angleAtCross(a, b, c) ==
    LET bax == a.x - b.x
        bay == a.y - b.y
        bcx == c.x - b.x
        bcy == c.y - b.y
        cross == bax * bcy - bay * bcx
    IN  IF Hypot2(bax, bay) = 0 \/ Hypot2(bcx, bcy) = 0 THEN NaN
        ELSE Fin(AcosDeg(cross, Hypot2(bax, bay) * Hypot2(bcx, bcy)))

\* angleAt(a, b, c); the clamp of cosang to [-1, 1] changes nothing when the
\* quotient is exact
angleAt(a, b, c) ==
    LET bax == a.x - b.x
        bay == a.y - b.y
        bcx == c.x - b.x
        bcy == c.y - b.y
        dot == bax * bcx + bay * bcy
    IN  IF Hypot2(bax, bay) = 0 \/ Hypot2(bcx, bcy) = 0 THEN NaN
        ELSE Fin(AcosDeg(dot, Hypot2(bax, bay) * Hypot2(bcx, bcy)))

\* Math.atan2(dy, dx) * 180 / Math.PI for (dx, dy) # (0, 0), in degrees
Atan2Deg(dy, dx) ==
    LET r == AcosDeg(dx, Hypot2(dx, dy))
    IN  IF dy < 0 THEN -r ELSE r

\* the fold of angleToVertical without the last Math.abs
VerticalFoldSigned(theta) ==
    ((Abs(-90 - theta) + 180) % 360) - 180

\* diff = Math.abs(-90 - theta); diff = ((diff + 180) % 360) - 180;
\* Math.abs(diff)
VerticalFold(theta) ==
    Abs(((Abs(-90 - theta) + 180) % 360) - 180)

\* angleToVertical measured from the x axis: the fold left out
angleToVerticalUnfolded(p1, p2) ==
    LET dx == p2.x - p1.x
        dy == p2.y - p1.y
    IN  IF Hypot2(dx, dy) = 0 THEN NaN
        ELSE Fin(Abs(Atan2Deg(dy, dx)))

\* angleToVertical(p1, p2)
angleToVertical(p1, p2) ==
    LET dx == p2.x - p1.x
        dy == p2.y - p1.y
    IN  IF Hypot2(dx, dy) = 0 THEN NaN
        ELSE Fin(VerticalFold(Atan2Deg(dy, dx)))

----------------------------------------------------------------------------
(* class StrokeState *)

\* constructor({catchAngleMax, smooth, minCatchIntervalSec, confirmFrames, windowSize})
NewStrokeState(o) ==
    [ catchAngleMax |-> o.catchAngleMax,
      smooth |-> Max(1, o.smooth),
      minCatchIntervalSec |-> o.minCatchIntervalSec,
      confirmFrames |-> Max(1, o.confirmFrames),
      windowSize |-> Max(3, o.windowSize),
      angles |-> <<>>,
      deriv |-> <<>>,
      catches |-> <<>>,
      finishes |-> <<>>,
      posStreak |-> 0 ]

RECURSIVE SumA(_, _, _)
\* for (let i = from; i < angles.length; i++) s += angles[i].a
SumA(angles, i, s) ==
    IF i > Len(angles) THEN s ELSE SumA(angles, i + 1, s + angles[i].a)

\* smoothedAngle() averaging the whole history in place of the last `smooth`
smoothedAngleAll(s) ==
    IF Len(s.angles) < s.smooth THEN Null
    ELSE Div(SumA(s.angles, 1, 0), Len(s.angles))

\* smoothedAngle()
smoothedAngle(s) ==
    IF Len(s.angles) < s.smooth THEN Null
    ELSE Div(SumA(s.angles, Len(s.angles) - s.smooth + 1, 0), s.smooth)

\* sm <= catchAngleMax for fractions sm and catchAngleMax
SmLeq(sm, limit) == sm.n * limit.d <= limit.n * sm.d

RECURSIVE ScanMin(_, _, _, _)
\* the loop of _isLocalMin: the index of the first smallest angle in start..end
ScanMin(angles, i, end, minIdx) ==
    IF i > end THEN minIdx
    ELSE ScanMin(angles, i + 1, end,
                 IF minIdx = 0 \/ angles[i].a < angles[minIdx].a THEN i ELSE minIdx)

\* _isLocalMin() with ties allowed: the last sample is a smallest one
isLocalMinTied(s) ==
    IF Len(s.angles) < s.windowSize THEN FALSE
    ELSE LET end == Len(s.angles)
             start == Max(1, end - s.windowSize + 1)
         IN  \A i \in start..end : s.angles[end].a <= s.angles[i].a

\* _isLocalMin()
isLocalMin(s) ==
    IF Len(s.angles) < s.windowSize THEN FALSE
    ELSE LET end == Len(s.angles)
             start == Max(1, end - s.windowSize + 1)
         IN  ScanMin(s.angles, start, end, 0) = end

\* angles.push({t, a}); deriv.push({t, d}) when an earlier sample exists
PushSample(s, t, angle) ==
    LET L == Len(s.angles)
        a1 == Append(s.angles, [t |-> t, a |-> angle])
    IN  IF L >= 1
        THEN LET dt == Max(DtFloor, t - s.angles[L].t)
             IN  [s EXCEPT !.angles = a1,
                           !.deriv = Append(s.deriv,
                                [t |-> t, d |-> Div(angle - s.angles[L].a, dt)])]
        ELSE [s EXCEPT !.angles = a1]

\* _posStreak = dNow >= 0 ? _posStreak + 1 : 0
Streak(s) ==
    IF Len(s.deriv) >= 1
    THEN [s EXCEPT !.posStreak = IF Last(s.deriv).d.n >= 0 THEN s.posStreak + 1 ELSE 0]
    ELSE s

\* lastCatchOk without the refractory test
lastCatchOkNever(s, t) == TRUE

\* lastCatchOk that lets a catch through at exactly the refractory interval
lastCatchOkLoose(s, t) ==
    Len(s.catches) = 0 \/ t - Last(s.catches) >= s.minCatchIntervalSec

\* catches.length === 0 || t - catches[catches.length - 1] > minCatchIntervalSec
lastCatchOk(s, t) ==
    Len(s.catches) = 0 \/ t - Last(s.catches) > s.minCatchIntervalSec

\* the condition of the primary branch
PrimaryFires(s, t) ==
    /\ Len(s.deriv) >= 2
    /\ LET dPrev == s.deriv[Len(s.deriv) - 1].d
           dNow == s.deriv[Len(s.deriv)].d
           sm == smoothedAngle(s)
       IN  /\ sm # Null
           /\ dPrev.n < 0 /\ dNow.n >= 0
           /\ SmLeq(sm, s.catchAngleMax)
           /\ lastCatchOk(s, t)
           /\ s.posStreak >= s.confirmFrames
           /\ isLocalMin(s)

Primary(s, t) ==
    IF PrimaryFires(s, t) THEN [s EXCEPT !.catches = Append(s.catches, t)] ELSE s

\* the condition of the fallback branch without the double-add guard
FallbackFiresUnguarded(s, t) ==
    LET sm2 == smoothedAngle(s)
    IN  /\ sm2 # Null
        /\ SmLeq(sm2, s.catchAngleMax)
        /\ isLocalMin(s)
        /\ lastCatchOk(s, t)

\* the condition of the fallback branch and its double-add guard;
\* `last && ...` is falsy for no last catch and for a last catch of 0
FallbackFires(s, t) ==
    LET sm2 == smoothedAngle(s)
    IN  /\ sm2 # Null
        /\ SmLeq(sm2, s.catchAngleMax)
        /\ isLocalMin(s)
        /\ lastCatchOk(s, t)
        /\ ~ ( /\ Len(s.catches) > 0
               /\ Last(s.catches) # 0
               /\ Abs(Last(s.catches) - t) < DupEps )

Fallback(s, t) ==
    IF FallbackFires(s, t) THEN [s EXCEPT !.catches = Append(s.catches, t)] ELSE s

RECURSIVE MinP(_, _, _)
\* the reduce with the comparison reversed
MinP(w, i, m) ==
    IF i > Len(w) THEN m ELSE MinP(w, i + 1, IF w[i].a < m.a THEN w[i] ELSE m)

RECURSIVE MaxP(_, _, _)
\* window.reduce((m, p) => (p.a > m.a ? p : m))
MaxP(w, i, m) ==
    IF i > Len(w) THEN m ELSE MaxP(w, i + 1, IF w[i].a > m.a THEN w[i] ELSE m)

\* the filter with p.t > lastCatch
FinishWindowAfter(s) ==
    LET lastCatch == Last(s.catches)
        After(p) == p.t > lastCatch
    IN  SelectSeq(s.angles, After)

\* angles.filter((p) => p.t >= lastCatch)
FinishWindow(s) ==
    LET lastCatch == Last(s.catches)
        AtOrAfter(p) == p.t >= lastCatch
    IN  SelectSeq(s.angles, AtOrAfter)

\* finish detection without the test against the last finish
FinishUnguarded(s) ==
    IF Len(s.catches) >= 1
    THEN LET window == FinishWindow(s)
         IN  IF Len(window) >= 3
             THEN LET maxP == MaxP(window, 2, window[1])
                  IN  [s EXCEPT !.finishes = Append(s.finishes, maxP.t)]
             ELSE s
    ELSE s

\* finish detection that overwrites the last finish in place of appending
FinishRewrites(s) ==
    IF Len(s.catches) >= 1
    THEN LET window == FinishWindow(s)
         IN  IF Len(window) >= 3
             THEN LET maxP == MaxP(window, 2, window[1])
                  IN  IF Len(s.finishes) = 0
                      THEN [s EXCEPT !.finishes = <<maxP.t>>]
                      ELSE IF maxP.t > Last(s.finishes)
                           THEN [s EXCEPT !.finishes[Len(s.finishes)] = maxP.t]
                           ELSE s
             ELSE s
    ELSE s

\* finish detection
Finish(s) ==
    IF Len(s.catches) >= 1
    THEN LET window == FinishWindow(s)
         IN  IF Len(window) >= 3
             THEN LET maxP == MaxP(window, 2, window[1])
                  IN  IF Len(s.finishes) = 0 \/ maxP.t > Last(s.finishes)
                      THEN [s EXCEPT !.finishes = Append(s.finishes, maxP.t)]
                      ELSE s
             ELSE s
    ELSE s

\* update(t, angle)
update(s, t, angle) ==
    IF ~isFinite(angle) THEN s
    ELSE Finish(Fallback(Primary(Streak(PushSample(s, t, angle.v)), t), t))

RECURSIVE PeriodsAll(_, _)
\* Periods with dt > 0 in place of dt > 0.1
PeriodsAll(c, i) ==
    IF i > Len(c) - 1 THEN <<>>
    ELSE LET dt == c[i + 1] - c[i]
         IN  (IF dt > 0 THEN <<dt>> ELSE <<>>) \o PeriodsAll(c, i + 1)

RECURSIVE Periods(_, _)
\* the inter-catch intervals above 0.1 s, in order
Periods(c, i) ==
    IF i > Len(c) - 1 THEN <<>>
    ELSE LET dt == c[i + 1] - c[i]
         IN  (IF dt > MinPeriod THEN <<dt>> ELSE <<>>) \o Periods(c, i + 1)

RECURSIVE SumSeq(_, _)
SumSeq(q, i) == IF i > Len(q) THEN 0 ELSE q[i] + SumSeq(q, i + 1)

\* spm = 60 / (periods.reduce(+) / periods.length), 0 without periods
Spm(c) ==
    LET periods == Periods(c, 1)
    IN  IF Len(periods) > 0
        THEN Div(UsPerMinute * Len(periods), SumSeq(periods, 1))
        ELSE Div(0, 1)

RECURSIVE DrrScanSwapped(_, _, _)
\* DrrScan returning rec / drive
DrrScanSwapped(c, f, i) ==
    IF i < 1 THEN Null
    ELSE LET tC == c[i]
             tF == f[i]
             tN == c[i + 1]
         IN  IF tC < tF /\ tF < tN /\ tF - tC > 0 /\ tN - tF > 0
             THEN Div(tN - tF, tF - tC)
             ELSE DrrScanSwapped(c, f, i - 1)

RECURSIVE DrrScan(_, _, _)
\* for (i = min(finishes.length, catches.length - 1) - 1; i >= 0; i--), 1-based here
DrrScan(c, f, i) ==
    IF i < 1 THEN Null
    ELSE LET tC == c[i]
             tF == f[i]
             tN == c[i + 1]
         IN  IF tC < tF /\ tF < tN /\ tF - tC > 0 /\ tN - tF > 0
             THEN Div(tF - tC, tN - tF)
             ELSE DrrScan(c, f, i - 1)

\* summary()
summary(s) ==
    LET strokes == Len(s.catches)
    IN  IF strokes >= 2
        THEN [ strokes |-> strokes,
               spm |-> Spm(s.catches),
               drr |-> DrrScan(s.catches, s.finishes,
                               Min(Len(s.finishes), Len(s.catches) - 1)) ]
        ELSE [ strokes |-> strokes, spm |-> Div(0, 1), drr |-> Null ]

\* a summary() that shifts the catch list while it reads it
summaryConsumes(s) ==
    [s EXCEPT !.catches = IF Len(s.catches) > 0 THEN Tail(s.catches) ELSE s.catches]

\* the fields of the instance after summary(): it assigns none
afterSummary(s) == s

----------------------------------------------------------------------------
(* The page script: landmark smoothing, adaptive threshold, reset *)

MinWindowSamples == 10  \* kneeWindow.length < 10
RangeFloor == 1         \* Math.max(1, maxA - minA)
HeuristicPct == 35      \* minA + 0.35 * range
ThrLow == 70            \* Math.max(70, ...)
ThrHigh == 130          \* Math.min(130, thr)
kneeWindowSec == Sec(80)
AlphaMax == Div(9, 10)  \* Math.min(0.9, ...)

\* arithmetic and order of fractions
FAdd(a, b) == Div(a.n * b.d + b.n * a.d, a.d * b.d)
FSub(a, b) == Div(a.n * b.d - b.n * a.d, a.d * b.d)
FMul(a, b) == Div(a.n * b.n, a.d * b.d)
FLeq(a, b) == a.n * b.d <= b.n * a.d
FMax(a, b) == IF FLeq(b, a) THEN a ELSE b
FMin(a, b) == IF FLeq(a, b) THEN a ELSE b

\* a landmark {x, y} in normalized coordinates; a missing one
Pt(x, y) == [x |-> x, y |-> y]
NullPt == [x |-> Null, y |-> Null]

Joints == {"shoulder", "hip", "knee", "ankle", "wrist"}

\* a landmark alpha that is NaN (parseFloat of a value that is no number)
NaNAlpha == [fin |-> FALSE, v |-> Div(0, 1)]

\* landmarkAlpha || 0
OrZero(alpha) == IF ~alpha.fin \/ alpha.v.n = 0 THEN Div(0, 1) ELSE alpha.v

\* the alpha of smoothLm without the clamp
ClampAlphaNone(alpha) == OrZero(alpha)

\* Math.max(0, Math.min(0.9, landmarkAlpha || 0))
ClampAlpha(alpha) == FMax(Div(0, 1), FMin(AlphaMax, OrZero(alpha)))

\* a * p + (1 - a) * prev
Blend(a, p, prev) == FAdd(FMul(a, p), FMul(FSub(Div(1, 1), a), prev))

\* smoothLm that blends the first sample of a joint with the origin
smoothLmLagged(lmPrev, alpha, name, p) ==
    LET a == ClampAlpha(alpha)
        prev == IF lmPrev[name] = NullPt THEN Pt(Div(0, 1), Div(0, 1)) ELSE lmPrev[name]
        q == Pt(Blend(a, p.x, prev.x), Blend(a, p.y, prev.y))
    IN  IF p = NullPt THEN [lmPrev |-> lmPrev, out |-> p]
        ELSE [lmPrev |-> [lmPrev EXCEPT ![name] = q], out |-> q]

\* smoothLm that stores and returns the raw landmark
smoothLmRaw(lmPrev, alpha, name, p) ==
    IF p = NullPt THEN [lmPrev |-> lmPrev, out |-> p]
    ELSE [lmPrev |-> [lmPrev EXCEPT ![name] = Pt(p.x, p.y)], out |-> p]

\* smoothLm(name, p): the new lmPrev and the returned point
smoothLm(lmPrev, alpha, name, p) ==
    IF p = NullPt THEN [lmPrev |-> lmPrev, out |-> p]
    ELSE LET prev == lmPrev[name]
         IN  IF prev = NullPt
             THEN [lmPrev |-> [lmPrev EXCEPT ![name] = Pt(p.x, p.y)], out |-> p]
             ELSE LET a == ClampAlpha(alpha)
                      q == Pt(Blend(a, p.x, prev.x), Blend(a, p.y, prev.y))
                  IN  [lmPrev |-> [lmPrev EXCEPT ![name] = q], out |-> q]

\* the values angleAt(a, b, c) can return: NaN when a side has length 0,
\* else a finite angle, which is an input of the frame drawn from S
angleAtRange(a, b, c, S) ==
    IF a = b \/ c = b THEN {NaN} ELSE {Fin(v) : v \in S}

LCM(a, b) == (a * b) \div GCD(a, b)

\* a landmark on the grid of step 1 / L
Scaled(p, L) == [x |-> p.x.n * (L \div p.x.d), y |-> p.y.n * (L \div p.y.d)]

\* angleAt(hip, knee, ankle) of the smoothed landmarks: the angle does not
\* change when the three points are scaled to whole coordinates
kneeAngleOf(a, b, c) ==
    LET L == LCM(LCM(LCM(a.x.d, a.y.d), LCM(b.x.d, b.y.d)), LCM(c.x.d, c.y.d))
    IN  angleAt(Scaled(a, L), Scaled(b, L), Scaled(c, L))

\* updateKneeWindow that never evicts
EvictNone(kw, tMin) == kw

RECURSIVE Evict(_, _)
\* while (kneeWindow.length && kneeWindow[0].t < tMin) kneeWindow.shift()
Evict(kw, tMin) ==
    IF Len(kw) > 0 /\ kw[1].t < tMin THEN Evict(Tail(kw), tMin) ELSE kw

\* updateKneeWindow(t, angle)
updateKneeWindow(kw, t, angle) ==
    IF ~isFinite(angle) THEN kw
    ELSE Evict(Append(kw, [t |-> t, angle |-> angle.v]), t - kneeWindowSec)

RECURSIVE MinA(_, _, _)
\* if (k.angle < minA) minA = k.angle, over the window
MinA(kw, i, m) ==
    IF i > Len(kw) THEN m ELSE MinA(kw, i + 1, IF kw[i].angle < m THEN kw[i].angle ELSE m)

RECURSIVE MaxA(_, _, _)
\* if (k.angle > maxA) maxA = k.angle, over the window
MaxA(kw, i, m) ==
    IF i > Len(kw) THEN m ELSE MaxA(kw, i + 1, IF kw[i].angle > m THEN kw[i].angle ELSE m)

\* the heuristic at the middle of the range
HeuristicMid(minA, maxA) ==
    LET range == Max(RangeFloor, maxA - minA)
    IN  Div(minA * 100 + 50 * range, 100)

\* range = Math.max(1, maxA - minA); thr = minA + 0.35 * range
Heuristic(minA, maxA) ==
    LET range == Max(RangeFloor, maxA - minA)
    IN  Div(minA * 100 + HeuristicPct * range, 100)

\* the return of estimateCatchThreshold without the clamp
ClampThrNone(thr) == thr

\* Math.max(70, Math.min(130, thr))
ClampThr(thr) == FMax(Div(ThrLow, 1), FMin(Div(ThrHigh, 1), thr))

\* estimateCatchThreshold without the test of the window length
estimateAlways(kw, manualCatchThresh) ==
    IF Len(kw) < 1 THEN manualCatchThresh
    ELSE ClampThr(Heuristic(MinA(kw, 2, kw[1].angle), MaxA(kw, 2, kw[1].angle)))

\* estimateCatchThreshold(); the window holds 10 samples or more where the
\* loop runs, so minA and maxA start from its first sample
estimateCatchThreshold(kw, manualCatchThresh) ==
    IF Len(kw) < MinWindowSamples THEN manualCatchThresh
    ELSE ClampThr(Heuristic(MinA(kw, 2, kw[1].angle), MaxA(kw, 2, kw[1].angle)))

\* new StrokeState({ catchAngleMax: 110, smooth: 5 }) with the defaults of
\* the constructor for the rest
PageOptions ==
    [catchAngleMax |-> Div(110, 1), smooth |-> 5, minCatchIntervalSec |-> Sec(9),
     confirmFrames |-> 2, windowSize |-> 9]

\* the page variables as the script sets them when it loads; `joints` are
\* the smoothed landmarks of the last frame (the locals hip, knee, ankle,
\* shoulder of onResults) and `frames` counts the frames handled by
\* onResults.  `landmarker` is FALSE for null.  The rest is the state of
\* the event loop: `setups` counts the calls of setupLandmarker() that have
\* not returned, by caller (startWebcam, another start handler, or
\* recreateLandmarker, which bindRange calls twice while the script loads),
\* `awaitingMedia` the start handlers that wait for the video to play,
\* `raf` the loop callbacks requested for the next animation frame, `due`
\* those of the current animation frame that have not run yet, and `now`
\* is performance.now().
NewPage(alpha, auto, manual) ==
    [ landmarkAlpha |-> alpha,
      autoCatch |-> auto,
      manualCatchThresh |-> manual,
      kneeWindow |-> <<>>,
      lmPrev |-> [j \in Joints |-> NullPt],
      joints |-> [j \in Joints |-> NullPt],
      frames |-> 0,
      running |-> FALSE,
      landmarker |-> FALSE,
      startDisabled |-> FALSE,
      setups |-> [webcam |-> 0, source |-> 0, recreate |-> 2],
      awaitingMedia |-> 0,
      raf |-> 0,
      due |-> 0,
      now |-> 0 ]

PageAtLoad == NewPage(Fin(Div(2, 10)), FALSE, Div(110, 1))

----------------------------------------------------------------------------
(* The detector driven by a caller.  Timestamps never decrease: each call  *)
(* is made dt after the last accepted sample.  The constructor arguments   *)
(* keep the windows short (windowSize 3, smooth 1 or 2) so that catches    *)
(* and finishes happen within a few samples.                               *)

Opt(sm, mi) ==
    [catchAngleMax |-> Div(110, 1), smooth |-> sm, minCatchIntervalSec |-> mi,
     confirmFrames |-> 2, windowSize |-> 3]

AngleSet == {100, 104, 108, 112}
DtSet == {0, Sec(1), Sec(10)}

\* the timestamp of the last accepted sample, 0 before the first
Now == IF Len(stroke.angles) = 0 THEN 0 ELSE Last(stroke.angles).t

InitIn(options) ==
    /\ \E o \in options : stroke = NewStrokeState(o)
    /\ lastCall = [op |-> "new", angle |-> NaN]
    /\ ret = Undefined
    /\ page = PageAtLoad

\* stroke.update(t, angle)
Update(t, angle) ==
    /\ stroke' = update(stroke, t, angle)
    /\ lastCall' = [op |-> "update", angle |-> angle]
    /\ ret' = Undefined
    /\ UNCHANGED page

\* stroke.summary()
Summary ==
    /\ ret' = summary(stroke)
    /\ stroke' = afterSummary(stroke)
    /\ lastCall' = [op |-> "summary", angle |-> NaN]
    /\ UNCHANGED page

\* one frame of the page: stroke.update(tSec, kneeAngle); stroke.summary()
OnFrame(t, angle) ==
    /\ stroke' = afterSummary(update(stroke, t, angle))
    /\ ret' = summary(update(stroke, t, angle))
    /\ lastCall' = [op |-> "frame", angle |-> angle]
    /\ UNCHANGED page

(* Spec: the two methods called in any order, with any angle *)

Options == {Opt(1, 0), Opt(2, Sec(9))}

Init == InitIn(Options)

UpdateFinite ==
    /\ Len(stroke.angles) < MaxSamples
    /\ \E dt \in DtSet, a \in AngleSet : Update(Now + dt, Fin(a))

UpdateNaN ==
    \E dt \in DtSet : Update(Now + dt, NaN)

Next == UpdateFinite \/ UpdateNaN \/ Summary

Spec == Init /\ [][Next]_vars

(* SpecLong: longer runs of frames, repeated timestamps included *)

LongOptions == {Opt(1, 0), Opt(2, Sec(9))}
LongAngles == {104, 108, 112}
LongDts == {0, Sec(1)}

InitLong == InitIn(LongOptions)

FrameLong ==
    /\ Len(stroke.angles) < MaxLong
    /\ \E dt \in LongDts, a \in LongAngles : OnFrame(Now + dt, Fin(a))

NextLong == FrameLong

SpecLong == InitLong /\ [][NextLong]_vars

(* SpecFrames: frames at a steady rate (strictly increasing timestamps) *)

FrameOptions == {Opt(1, Sec(2)), Opt(2, Sec(9))}
FrameDt == Sec(1)

InitFrames == InitIn(FrameOptions)

FrameSteady ==
    /\ Len(stroke.angles) < MaxFrames
    /\ \E a \in AngleSet : OnFrame(Now + FrameDt, Fin(a))

NextFrames == FrameSteady

SpecFrames == InitFrames /\ [][NextFrames]_vars

(* SpecWave: a periodic knee angle, one sample per frame.  The first       *)
(* WavePeriod samples are free; every later sample repeats the one a period *)
(* earlier.                                                                 *)

WaveOptions == {Opt(1, Sec(9)), Opt(2, Sec(2))}
WaveDts == {Sec(5), Sec(10)}

InitWave == InitIn(WaveOptions)

\* the frame interval, fixed by the first two samples
WaveDt ==
    IF Len(stroke.angles) < 2 THEN WaveDts
    ELSE {stroke.angles[2].t - stroke.angles[1].t}

FrameWave ==
    /\ Len(stroke.angles) < MaxWave
    /\ LET k == Len(stroke.angles) + 1
       IN  \E dt \in WaveDt :
           \E a \in (IF k <= WavePeriod THEN AngleSet
                     ELSE {stroke.angles[k - WavePeriod].a}) :
               OnFrame(Now + dt, Fin(a))

NextWave == FrameWave

SpecWave == InitWave /\ [][NextWave]_vars

(* SpecConfig: the constructor called with valid and invalid numbers *)

MaxConfig == 3          \* accepted samples per run of SpecConfig

ConfigOptions ==
    [catchAngleMax : {Div(110, 1)}, smooth : {0, 2},
     minCatchIntervalSec : {-Sec(1), 0, Sec(9)},
     confirmFrames : {0, 2}, windowSize : {0, 4}]

InitConfig == InitIn(ConfigOptions)

FrameConfig ==
    /\ Len(stroke.angles) < MaxConfig
    /\ \E a \in AngleSet : OnFrame(Now + FrameDt, Fin(a))

NextConfig == FrameConfig

SpecConfig == InitConfig /\ [][NextConfig]_vars

(* SpecEdge: samples that start at timestamp 0 and follow each other by 0  *)
(* or 0.7 ms, with a refractory interval below 1 ms.                       *)

MaxEdge == 4            \* accepted samples per run of SpecEdge

EdgeOptions == {Opt(1, -Sec(1)), Opt(1, 0), Opt(1, 500)}
EdgeDts == {0, 700}

InitEdge == InitIn(EdgeOptions)

FrameEdge ==
    /\ Len(stroke.angles) < MaxEdge
    /\ \E dt \in EdgeDts, a \in AngleSet : OnFrame(Now + dt, Fin(a))

NextEdge == FrameEdge

SpecEdge == InitEdge /\ [][NextEdge]_vars

(* SpecRate: refractory intervals of 0.1 s (the threshold of the period     *)
(* filter) and 0.9 s (the default), frames 0.1 s or 0.5 s apart.            *)

MaxRate == 6            \* samples per run of SpecRate

RateOptions == {Opt(1, Sec(1)), Opt(1, Sec(9))}
RateAngles == {100, 104, 108}
RateDts == {Sec(1), Sec(5)}

InitRate == InitIn(RateOptions)

FrameRate ==
    /\ Len(stroke.angles) < MaxRate
    /\ \E dt \in RateDts, a \in RateAngles : OnFrame(Now + dt, Fin(a))

NextRate == FrameRate

SpecRate == InitRate /\ [][NextRate]_vars

(* SpecGeometry: angleAt and angleToVertical called once on points of a    *)
(* grid; the initial state holds the three points of the call.             *)

MaxCoord == 1           \* grid coordinates run from -MaxCoord to MaxCoord

Grid == [x : (-MaxCoord)..MaxCoord, y : (-MaxCoord)..MaxCoord]

InitGeometry ==
    /\ stroke = NewStrokeState(PageOptions)
    /\ \E a \in Grid, b \in Grid, c \in Grid :
           lastCall = [op |-> "new", a |-> a, b |-> b, c |-> c]
    /\ ret = Undefined
    /\ page = PageAtLoad

\* angleAt(a, b, c)
AngleAt ==
    /\ lastCall.op = "new"
    /\ ret' = angleAt(lastCall.a, lastCall.b, lastCall.c)
    /\ lastCall' = [lastCall EXCEPT !.op = "angleAt"]
    /\ UNCHANGED <<stroke, page>>

\* angleToVertical(p1, p2), called on the first two points
AngleToVertical ==
    /\ lastCall.op = "new"
    /\ ret' = angleToVertical(lastCall.a, lastCall.b)
    /\ lastCall' = [op |-> "angleToVertical", p1 |-> lastCall.a, p2 |-> lastCall.b]
    /\ UNCHANGED <<stroke, page>>

NextGeometry == AngleAt \/ AngleToVertical

SpecGeometry == InitGeometry /\ [][NextGeometry]_vars

----------------------------------------------------------------------------
(* The page driven by the frame loop.  Frames arrive FrameDt apart on the  *)
(* clock of performance.now(), which resetState() does not restart.        *)

\* the four smoothLm calls of onResults on the landmarks lm of the chosen
\* side: the new lmPrev and the smoothed hip, knee, ankle and shoulder
smoothFrame(p, lm) ==
    LET r1 == smoothLm(p.lmPrev, p.landmarkAlpha, "hip", lm.hip)
        r2 == smoothLm(r1.lmPrev, p.landmarkAlpha, "knee", lm.knee)
        r3 == smoothLm(r2.lmPrev, p.landmarkAlpha, "ankle", lm.ankle)
        r4 == smoothLm(r3.lmPrev, p.landmarkAlpha, "shoulder", lm.shoulder)
    IN  [lmPrev |-> r4.lmPrev, hip |-> r1.out, knee |-> r2.out,
         ankle |-> r3.out, shoulder |-> r4.out]

\* onResults(ts, results) for a result that holds the landmarks lm of the
\* chosen side; p holds the variables of the script and kneeAngles the
\* values angleAt can return for the smoothed landmarks
OnResultsOn(p, ts, lm, kneeAngles) ==
    LET sm == smoothFrame(p, lm)
    IN  \E kneeAngle \in kneeAngles :
            LET kw == updateKneeWindow(p.kneeWindow, ts, kneeAngle)
                thr == IF p.autoCatch
                       THEN estimateCatchThreshold(kw, p.manualCatchThresh)
                       ELSE p.manualCatchThresh
                s1 == update([stroke EXCEPT !.catchAngleMax = thr], ts, kneeAngle)
            IN  /\ stroke' = afterSummary(s1)
                /\ ret' = summary(s1)
                /\ page' = [p EXCEPT
                              !.lmPrev = sm.lmPrev,
                              !.kneeWindow = kw,
                              !.joints = [j \in Joints |->
                                            CASE j = "hip" -> sm.hip
                                              [] j = "knee" -> sm.knee
                                              [] j = "ankle" -> sm.ankle
                                              [] j = "shoulder" -> sm.shoulder
                                              [] OTHER -> lm.wrist],
                              !.frames = p.frames + 1]
                /\ lastCall' = [op |-> "onResults", angle |-> kneeAngle, lm |-> lm]

\* the finite knee angles the frame may measure are those of S
kneeAngleRange(p, lm, S) ==
    LET sm == smoothFrame(p, lm) IN angleAtRange(sm.hip, sm.knee, sm.ankle, S)

\* onResults where S holds the finite knee angles the frame may measure
OnResults(ts, lm, S) == OnResultsOn(page, ts, lm, kneeAngleRange(page, lm, S))

\* onResults where the knee angle is the angle of the smoothed landmarks
OnResultsMeasured(ts, lm) ==
    LET sm == smoothFrame(page, lm)
    IN  OnResultsOn(page, ts, lm, {kneeAngleOf(sm.hip, sm.knee, sm.ankle)})

\* resetState()
ResetState ==
    /\ stroke' = NewStrokeState(PageOptions)
    /\ lastCall' = [op |-> "resetState", angle |-> NaN]
    /\ UNCHANGED <<ret, page>>

\* the page once a source plays and one loop callback is requested
Started(p) ==
    [p EXCEPT !.running = TRUE, !.landmarker = TRUE,
              !.setups = [webcam |-> 0, source |-> 0, recreate |-> 0], !.raf = 1]

InitPage(alphas, autos, manuals) ==
    /\ stroke = NewStrokeState(PageOptions)
    /\ lastCall = [op |-> "new", angle |-> NaN]
    /\ ret = Undefined
    /\ \E alpha \in alphas, auto \in autos, manual \in manuals :
           page = Started(NewPage(alpha, auto, manual))

\* the landmarks of one frame, in quarters of the frame width and height
Pose(sx, sy, hx, hy, kx, ky, ax, ay, wx, wy) ==
    [shoulder |-> Pt(Div(sx, 4), Div(sy, 4)), hip |-> Pt(Div(hx, 4), Div(hy, 4)),
     knee |-> Pt(Div(kx, 4), Div(ky, 4)), ankle |-> Pt(Div(ax, 4), Div(ay, 4)),
     wrist |-> Pt(Div(wx, 4), Div(wy, 4))]

Extended == Pose(0, 1, 1, 3, 3, 3, 4, 3, 2, 2)
Compressed == Pose(2, 1, 2, 3, 3, 2, 4, 3, 3, 1)
\* the hip landmark falls on the knee landmark
Collapsed == Pose(2, 1, 3, 2, 3, 2, 4, 3, 3, 1)

(* SpecAdaptive: auto-catch on, one pose, and a knee angle that moves      *)
(* between two of three levels (or stays on one).                          *)

MaxAdaptive == 11       \* frames per run of SpecAdaptive

AdaptiveLevels == {40, 100, 150}

\* the levels the next frame may measure: those that keep the window on no
\* more than two levels
AdaptiveAngles ==
    LET seen == {page.kneeWindow[i].angle : i \in 1..Len(page.kneeWindow)}
    IN  IF Cardinality(seen) < 2 THEN AdaptiveLevels ELSE seen
AdaptiveManuals == {Div(110, 1), Div(140, 1)}

InitAdaptive == InitPage({Fin(Div(2, 10))}, {TRUE}, AdaptiveManuals)

FrameAdaptive ==
    /\ page.frames < MaxAdaptive
    /\ OnResults((page.frames + 1) * FrameDt, Extended, AdaptiveAngles)

NextAdaptive == FrameAdaptive

SpecAdaptive == InitAdaptive /\ [][NextAdaptive]_vars

(* SpecSmooth: moving landmarks, any landmark alpha, resets between frames *)

MaxSmooth == 3          \* frames per run of SpecSmooth

SmoothAlphas == {NaNAlpha, Fin(Div(-1, 10)), Fin(Div(0, 1)), Fin(Div(2, 10)),
                 Fin(Div(1, 2)), Fin(Div(1, 1))}
SmoothPoses == {Extended, Compressed, Collapsed}
SmoothAngles == {100, 112}

InitSmooth == InitPage(SmoothAlphas, {FALSE}, {Div(110, 1)})

FrameSmooth ==
    /\ page.frames < MaxSmooth
    /\ \E lm \in SmoothPoses :
           OnResults((page.frames + 1) * FrameDt, lm, SmoothAngles)

NextSmooth == FrameSmooth \/ ResetState

SpecSmooth == InitSmooth /\ [][NextSmooth]_vars

(* SpecWindow: frames 4 s or 5 s apart, some of them with a knee angle     *)
(* that is not finite.                                                     *)

MaxWindow == 4          \* frames per run of SpecWindow

WindowDts == {Sec(40), Sec(50)}
WindowPoses == {Extended, Collapsed}
WindowAngleSet == {100, 112}

InitWindow == InitPage({Fin(Div(2, 10))}, {FALSE}, {Div(110, 1)})

FrameWindow ==
    /\ page.frames < MaxWindow
    /\ \E dt \in WindowDts, lm \in WindowPoses :
           OnResults(Now + dt, lm, WindowAngleSet)

NextWindow == FrameWindow

SpecWindow == InitWindow /\ [][NextWindow]_vars

(* SpecFrozen: a landmark alpha of 0 or NaN, moving landmarks whose knee    *)
(* angle is measured from the smoothed points, resets between frames.       *)

MaxFrozen == 4          \* frames per run of SpecFrozen

FrozenAlphas == {NaNAlpha, Fin(Div(0, 1))}
\* the knee bent to 45 degrees
Folded == Pose(2, 1, 4, 2, 3, 3, 4, 3, 3, 1)
FrozenPoses == SmoothPoses \cup {Folded}

InitFrozen == InitPage(FrozenAlphas, {FALSE}, {Div(110, 1)})

FrameFrozen ==
    /\ page.frames < MaxFrozen
    /\ \E lm \in FrozenPoses :
           OnResultsMeasured((page.frames + 1) * FrameDt, lm)

NextFrozen == FrameFrozen \/ ResetState

SpecFrozen == InitFrozen /\ [][NextFrozen]_vars

----------------------------------------------------------------------------
(* The frame loop and the handlers that start, stop and reconfigure it.    *)
(* An async handler runs up to its next await in one step; the step after  *)
(* the await is taken when the awaited promise settles.  The callbacks of  *)
(* one animation frame run one after the other with no other task between  *)
(* them, so the other handlers wait while callbacks are due.  The detector *)
(* call `await landmarker.detectForVideo(...)` in loop() is one step with  *)
(* what follows it: the call returns its result, so the function resumes   *)
(* before any other task runs.                                              *)

MaxPending == 1         \* handlers of one kind waiting on one await
MaxRecreate == 2        \* recreateLandmarker() calls that have not returned
MaxChains == 2          \* loop callbacks requested or due
MaxTicks == 2           \* animation frames

LoopAngles == {100}

\* a start handler from resetState() to its await of the video: resetState(),
\* startBtn.disabled = true in startWebcam, then getUserMedia / play()
AwaitMedia(p, webcam) ==
    [p EXCEPT !.startDisabled = IF webcam THEN TRUE ELSE @,
              !.awaitingMedia = @ + 1]

\* startWebcam, handleFile, handleDirectUrl, startTabCapture up to the first
\* await that suspends them
StartSource(webcam) ==
    /\ page.due = 0
    /\ IF page.landmarker
       THEN /\ page.awaitingMedia < MaxPending
            /\ stroke' = NewStrokeState(PageOptions)
            /\ page' = AwaitMedia(page, webcam)
       ELSE /\ page.setups[IF webcam THEN "webcam" ELSE "source"] < MaxPending
            /\ page' = [page EXCEPT
                          !.setups[IF webcam THEN "webcam" ELSE "source"] = @ + 1]
            /\ UNCHANGED stroke
    /\ lastCall' = IF page.landmarker THEN [op |-> "resetState", angle |-> NaN] ELSE lastCall
    /\ UNCHANGED ret

StartWebcam == ~page.startDisabled /\ StartSource(TRUE)

HandleFile == StartSource(FALSE)

HandleDirectUrl == StartSource(FALSE)

StartTabCapture == StartSource(FALSE)

\* setupLandmarker() returns to the caller k: landmarker = await ...; a
\* start handler goes on to resetState() and the await of the video
SetupLandmarkerDone ==
    /\ page.due = 0
    /\ \E k \in {"webcam", "source", "recreate"} :
           /\ page.setups[k] > 0
           /\ LET p == [page EXCEPT !.landmarker = TRUE, !.setups[k] = @ - 1]
              IN  IF k = "recreate"
                  THEN page' = p /\ UNCHANGED <<stroke, lastCall>>
                  ELSE /\ page.awaitingMedia < MaxPending
                       /\ stroke' = NewStrokeState(PageOptions)
                       /\ lastCall' = [op |-> "resetState", angle |-> NaN]
                       /\ page' = AwaitMedia(p, k = "webcam")
    /\ UNCHANGED ret

\* the video plays: resizeCanvas(); running = true; requestAnimationFrame(loop)
MediaPlays ==
    /\ page.due = 0
    /\ page.awaitingMedia > 0
    /\ page.raf < MaxChains
    /\ page' = [page EXCEPT !.awaitingMedia = @ - 1, !.running = TRUE, !.raf = @ + 1]
    /\ UNCHANGED <<stroke, lastCall, ret>>

\* the stream or the video is refused: the handler ends
MediaFails ==
    /\ page.due = 0
    /\ page.awaitingMedia > 0
    /\ page' = [page EXCEPT !.awaitingMedia = @ - 1]
    /\ UNCHANGED <<stroke, lastCall, ret>>

\* stopWebcam()
StopWebcam ==
    /\ page.due = 0
    /\ page' = [page EXCEPT !.running = FALSE, !.startDisabled = FALSE]
    /\ UNCHANGED <<stroke, lastCall, ret>>

\* recreateLandmarker() up to its await: landmarker = null
RecreateLandmarker ==
    /\ page.due = 0
    /\ page.setups.recreate < MaxRecreate
    /\ page' = [page EXCEPT !.landmarker = FALSE, !.setups.recreate = @ + 1]
    /\ UNCHANGED <<stroke, lastCall, ret>>

\* the browser starts an animation frame: the requested callbacks are due
AnimationFrame ==
    /\ page.due = 0
    /\ page.raf > 0
    /\ page.now < MaxTicks * FrameDt
    /\ page' = [page EXCEPT !.due = page.raf, !.raf = 0, !.now = @ + FrameDt]
    /\ UNCHANGED <<stroke, lastCall, ret>>

\* loop(): if (!running || !landmarker) return
LoopReturns ==
    /\ page.due > 0
    /\ ~page.running \/ ~page.landmarker
    /\ page' = [page EXCEPT !.due = @ - 1]
    /\ UNCHANGED <<stroke, lastCall, ret>>

\* loop(): the video has no frame yet (readyState < 2), or the result holds
\* no landmarks and onResults returns at once; requestAnimationFrame(loop)
LoopSkips ==
    /\ page.due > 0
    /\ page.running /\ page.landmarker
    /\ page' = [page EXCEPT !.due = @ - 1, !.raf = @ + 1]
    /\ UNCHANGED <<stroke, lastCall, ret>>

\* loop(): ts = performance.now(); onResults(ts, results);
\* requestAnimationFrame(loop)
LoopFrame ==
    /\ page.due > 0
    /\ page.running /\ page.landmarker
    /\ OnResultsOn([page EXCEPT !.due = @ - 1, !.raf = @ + 1], page.now, Extended,
                   kneeAngleRange(page, Extended, LoopAngles))

Loop == LoopReturns \/ LoopSkips \/ LoopFrame

InitLoop == InitIn({PageOptions})

NextLoop ==
    \/ StartWebcam \/ HandleFile \/ HandleDirectUrl \/ StartTabCapture
    \/ SetupLandmarkerDone \/ MediaPlays \/ MediaFails
    \/ StopWebcam \/ RecreateLandmarker
    \/ AnimationFrame \/ Loop

SpecLoop == InitLoop /\ [][NextLoop]_vars

----------------------------------------------------------------------------
(* Properties *)

\* ret holds the value of a summary() call
SummaryReturned == lastCall.op \in {"summary", "frame"}

RECURSIVE GapSum(_, _)
\* the sum of c[i + 1] - c[i] over the indices i of I
GapSum(c, I) ==
    IF I = {} THEN 0
    ELSE LET i == CHOOSE j \in I : TRUE
         IN  (c[i + 1] - c[i]) + GapSum(c, I \ {i})

\* C1: with minCatchIntervalSec >= 0 the catch list is strictly increasing
\* and consecutive catches differ by more than minCatchIntervalSec, so two
\* minima within that interval leave one catch.
CatchesSeparated ==
    stroke.minCatchIntervalSec >= 0 =>
        \A i \in 1..(Len(stroke.catches) - 1) :
            /\ stroke.catches[i] < stroke.catches[i + 1]
            /\ stroke.catches[i + 1] - stroke.catches[i] > stroke.minCatchIntervalSec

\* a second minimum under the threshold arrives inside the refractory
\* interval of the catch recorded one sample earlier, and is not recorded
SecondMinimumCollapsed ==
    /\ Len(stroke.angles) = 4
    /\ stroke.catches = <<stroke.angles[3].t>>
    /\ stroke.angles[3].t < stroke.angles[4].t
    /\ stroke.angles[4].t - stroke.angles[3].t <= stroke.minCatchIntervalSec
    /\ isLocalMin(stroke)
    /\ SmLeq(smoothedAngle(stroke), stroke.catchAngleMax)

\* C6: update(t, angle) with a non-finite angle changes no field of the
\* detector, so summary() returns what it returned before.
NonFiniteUpdateIsNoOp ==
    [][ (lastCall'.op = "update" /\ ~lastCall'.angle.fin) =>
            /\ stroke' = stroke
            /\ summary(stroke') = summary(stroke) ]_vars

\* a non-finite angle was handed to a detector that holds samples and a catch
NonFiniteUpdateSeen ==
    /\ lastCall.op = "update"
    /\ ~lastCall.angle.fin
    /\ Len(stroke.angles) >= 3
    /\ Len(stroke.catches) >= 1

----------------------------------------------------------------------------
(* Finishes *)

SetMax(S) == CHOOSE x \in S : \A y \in S : y <= x

\* C2: a finish is recorded strictly after the catch that produced it (the
\* most recent catch when it is recorded) and every finish recorded so far is
\* strictly before a catch recorded later.
FinishInsideItsStroke ==
    [][ /\ Len(stroke'.finishes) > Len(stroke.finishes) =>
               Last(stroke'.finishes) > Last(stroke'.catches)
        /\ Len(stroke'.catches) > Len(stroke.catches) =>
               \A i \in 1..Len(stroke.finishes) :
                   stroke.finishes[i] < Last(stroke'.catches) ]_vars

\* C3: the finish list holds at most one entry per recorded catch.
OneFinishPerCatch ==
    Len(stroke.finishes) <= Len(stroke.catches)

\* the samples of the stroke that starts at catch k: c[k] <= t < c[k + 1]
StrokeSamples(k) ==
    {i \in 1..Len(stroke.angles) :
        /\ stroke.catches[k] <= stroke.angles[i].t
        /\ stroke.angles[i].t < stroke.catches[k + 1]}

\* the timestamps of the samples of stroke k that have its largest angle and
\* lie after its catch
PeakTimes(k) ==
    LET S == StrokeSamples(k)
    IN  {stroke.angles[i].t : i \in
            {j \in S : /\ \A h \in S : stroke.angles[h].a <= stroke.angles[j].a
                       /\ stroke.angles[j].t > stroke.catches[k]}}

\* C4: a reported drr is (f - c[k]) / (c[k + 1] - f) of the latest completed
\* stroke k that has a finish between its catches, f being the timestamp of
\* the largest-angle sample of that stroke.  "Has a finish between them" is
\* read both ways: its peak lies between them, or a recorded finish does.
DrrIsOfLatestStroke ==
    (SummaryReturned /\ ret.drr # Null) =>
        LET c == stroke.catches
            f == stroke.finishes
            byPeak == {k \in 1..(Len(c) - 1) : PeakTimes(k) # {}}
            byEntry == {k \in 1..(Len(c) - 1) :
                           \E j \in 1..Len(f) : c[k] < f[j] /\ f[j] < c[k + 1]}
            Ratios(K) == IF K = {} THEN {}
                         ELSE LET k == SetMax(K)
                              IN  {Div(t - c[k], c[k + 1] - t) : t \in PeakTimes(k)}
        IN  ret.drr \in Ratios(byPeak) \cup Ratios(byEntry)

\* the samples at or after the most recent catch
SinceCatch ==
    LET c == Last(stroke.catches)
        In(p) == p.t >= c
    IN  SelectSeq(stroke.angles, In)

\* w rises strictly up to index p, falls right after it and never exceeds
\* w[p] again (later, smaller maxima are allowed)
PeakAt(w, p) ==
    /\ p \in 2..(Len(w) - 1)
    /\ \A i \in 1..(p - 1) : w[i].a < w[i + 1].a
    /\ w[p + 1].a < w[p].a
    /\ \A i \in (p + 1)..Len(w) : w[i].a <= w[p].a

\* the samples at or after the last catch of s have risen and then fallen
RiseThenFall(s) ==
    /\ Len(s.catches) >= 1
    /\ LET c == Last(s.catches)
           In(p) == p.t >= c
           w == SelectSeq(s.angles, In)
       IN  \E p \in 1..Len(w) : PeakAt(w, p)

\* the timestamp of that peak
PeakTime(s) ==
    LET c == Last(s.catches)
        In(p) == p.t >= c
        w == SelectSeq(s.angles, In)
    IN  w[CHOOSE p \in 1..Len(w) : PeakAt(w, p)].t

\* C5: when the samples since the last catch rise and then fall, the last
\* recorded finish is the timestamp of their peak, and no later update before
\* the next catch changes the finish list as long as no sample exceeds the
\* peak (a smaller later maximum does not overwrite it).
FinishStaysAtPeak ==
    /\ [](RiseThenFall(stroke) =>
            /\ Len(stroke.finishes) >= 1
            /\ Last(stroke.finishes) = PeakTime(stroke))
    /\ [][ ( /\ RiseThenFall(stroke)
             /\ stroke'.catches = stroke.catches
             /\ RiseThenFall(stroke') ) =>
           stroke'.finishes = stroke.finishes ]_vars

\* after the peak the angle fell and rose again to a smaller maximum, with no
\* new catch, and the finish is still the peak, later than the catch
FellFromPeak ==
    /\ RiseThenFall(stroke)
    /\ Len(SinceCatch) >= 4
    /\ SinceCatch[1].t = Last(stroke.catches)
    /\ SinceCatch[Len(SinceCatch)].a > SinceCatch[Len(SinceCatch) - 1].a
    /\ \E p \in 1..Len(SinceCatch) :
           PeakAt(SinceCatch, p) /\ SinceCatch[Len(SinceCatch)].a < SinceCatch[p].a
    /\ PeakTime(stroke) > Last(stroke.catches)
    /\ PeakTime(stroke) < Last(stroke.angles).t
    /\ Last(stroke.finishes) = PeakTime(stroke)

----------------------------------------------------------------------------
(* Periodic signals *)

\* the samples 1..WavePeriod at or below the threshold form one run that
\* does not fill the period (the signal dips below catchAngleMax once), and
\* the signal has no plateau and one trough per period
DipsOncePerPeriod ==
    LET a(i) == stroke.angles[i].a
        low(i) == SmLeq(Div(a(i), 1), stroke.catchAngleMax)
        next(i) == IF i = WavePeriod THEN 1 ELSE i + 1
    IN  /\ Len(stroke.angles) >= WavePeriod
        /\ Cardinality({i \in 1..WavePeriod : low(i) /\ ~low(next(i))}) = 1
        /\ \A i \in 1..WavePeriod : a(i) # a(next(i))
        /\ Cardinality({i \in 1..WavePeriod :
                           a(i) > a(next(i)) /\ a(next(i)) < a(next(next(i)))}) = 1

\* the catches recorded on the samples of period j
CatchesInPeriod(j) ==
    {i \in 1..Len(stroke.catches) :
        /\ stroke.catches[i] >= stroke.angles[(j - 1) * WavePeriod + 1].t
        /\ stroke.catches[i] <= stroke.angles[j * WavePeriod].t}

\* C7: a periodic signal that dips below catchAngleMax once per period T,
\* T > minCatchIntervalSec, gets exactly one catch in every complete period
\* after the first (the warm-up).
OneCatchPerPeriod ==
    ( /\ Len(stroke.angles) >= 2 * WavePeriod
      /\ DipsOncePerPeriod
      /\ stroke.angles[WavePeriod + 1].t - stroke.angles[1].t
             > stroke.minCatchIntervalSec ) =>
        \A j \in 2..(Len(stroke.angles) \div WavePeriod) :
            Cardinality(CatchesInPeriod(j)) = 1
----------------------------------------------------------------------------
(* The catch and finish logs *)

\* p is a prefix of q
IsPrefix(p, q) == Len(p) <= Len(q) /\ SubSeq(q, 1, Len(p)) = p

\* C11: every step of a detector instance leaves the old catch list and the
\* old finish list as prefixes of the new ones, and the stroke count that
\* summary() reports never decreases.
LogsAreAppendOnly ==
    [][ /\ IsPrefix(stroke.catches, stroke'.catches)
        /\ IsPrefix(stroke.finishes, stroke'.finishes)
        /\ summary(stroke').strokes >= summary(stroke).strokes ]_vars

\* both logs have grown past their first entry
LogsGrewTwice ==
    /\ Len(stroke.catches) >= 2
    /\ Len(stroke.finishes) >= 2

----------------------------------------------------------------------------
(* The trailing mean *)

RECURSIVE AngleSum(_, _)
\* the sum of the raw angles at the indices of I
AngleSum(angles, I) ==
    IF I = {} THEN 0
    ELSE LET i == CHOOSE j \in I : TRUE
         IN  angles[i].a + AngleSum(angles, I \ {i})

\* C20: smoothedAngle() is null while fewer than `smooth` samples have been
\* accepted, and otherwise the arithmetic mean of the last `smooth` accepted
\* raw angles.
SmoothedIsTrailingMean ==
    LET n == Len(stroke.angles)
        k == stroke.smooth
    IN  IF n < k
        THEN smoothedAngle(stroke) = Null
        ELSE smoothedAngle(stroke) = Div(AngleSum(stroke.angles, (n - k + 1)..n), k)

\* more samples than `smooth` were accepted, and the mean of the last
\* `smooth` differs from the mean of all of them and from the last sample
TrailingMeanDropsOldSample ==
    LET n == Len(stroke.angles)
    IN  /\ stroke.smooth = 2
        /\ n >= 3
        /\ smoothedAngle(stroke) # Div(AngleSum(stroke.angles, 1..n), n)
        /\ smoothedAngle(stroke) # Div(stroke.angles[n].a, 1)

----------------------------------------------------------------------------
(* The history buffers *)

\* C17: the angle history holds no sample older than the windows that read
\* it (the last `smooth` samples, the last `windowSize` samples and the
\* samples since the last catch), and the derivative history holds no more
\* than the two entries update() reads.
HistoriesAreWindowed ==
    LET n == Len(stroke.angles)
        keep == Max(stroke.smooth, stroke.windowSize)
    IN  /\ \A i \in 1..n :
               \/ i > n - keep
               \/ /\ Len(stroke.catches) >= 1
                  /\ stroke.angles[i].t >= Last(stroke.catches)
        /\ Len(stroke.deriv) <= 2

----------------------------------------------------------------------------
(* The constructor *)

\* C15: whatever numbers the constructor is given, the instance has
\* smooth >= 1, confirmFrames >= 1, windowSize >= 3 and
\* minCatchIntervalSec > 0.
ConfigIsClamped ==
    /\ stroke.smooth >= 1
    /\ stroke.confirmFrames >= 1
    /\ stroke.windowSize >= 3
    /\ stroke.minCatchIntervalSec > 0

----------------------------------------------------------------------------
(* The adaptive catch threshold *)

\* the frame handler ran with auto-catch on; the threshold it handed to the
\* detector is stroke.catchAngleMax and the window it read is page.kneeWindow
AdaptiveFrame == lastCall.op = "onResults" /\ page.autoCatch

WindowAngles == {page.kneeWindow[i].angle : i \in 1..Len(page.kneeWindow)}
WindowMin == CHOOSE a \in WindowAngles : \A b \in WindowAngles : a <= b
WindowMax == CHOOSE a \in WindowAngles : \A b \in WindowAngles : a >= b

\* x clamped to [70, 130]
Clamped(x) ==
    IF x.n < ThrLow * x.d THEN Div(ThrLow, 1)
    ELSE IF x.n > ThrHigh * x.d THEN Div(ThrHigh, 1)
    ELSE x

\* C12: with auto-catch on and fewer than 10 samples in the knee window,
\* the threshold handed to the detector is the operator's threshold.
ShortWindowUsesManual ==
    (AdaptiveFrame /\ Len(page.kneeWindow) < 10) =>
        stroke.catchAngleMax = page.manualCatchThresh

\* nine samples are in the window and the operator's threshold, 140, is
\* handed on although it is outside [70, 130]
NineSamplesManual ==
    /\ AdaptiveFrame
    /\ Len(page.kneeWindow) = 9
    /\ page.manualCatchThresh = Div(140, 1)
    /\ stroke.catchAngleMax = Div(140, 1)

\* C13: with auto-catch on and 10 samples or more in the knee window, the
\* threshold handed to the detector is in [70, 130].
AdaptiveThresholdInRange ==
    (AdaptiveFrame /\ Len(page.kneeWindow) >= 10) =>
        /\ stroke.catchAngleMax.n >= 70 * stroke.catchAngleMax.d
        /\ stroke.catchAngleMax.n <= 130 * stroke.catchAngleMax.d

\* a full window that sits wholly above 130 degrees gives the threshold 130
HighWindowClamped ==
    /\ AdaptiveFrame
    /\ Len(page.kneeWindow) >= 10
    /\ WindowMin > 130
    /\ stroke.catchAngleMax = Div(130, 1)

\* C14 as stated: with auto-catch on and 10 samples or more in the window,
\* the threshold is windowMin + 0.35 * (windowMax - windowMin) clamped to
\* [70, 130], flat windows included.
ThresholdIsHeuristic ==
    (AdaptiveFrame /\ Len(page.kneeWindow) >= 10) =>
        stroke.catchAngleMax =
            Clamped(Div(100 * WindowMin + 35 * (WindowMax - WindowMin), 100))

\* C14 amended: the spread windowMax - windowMin is taken as no less than 1
\* degree, so the threshold is windowMin + 0.35 * max(1, windowMax -
\* windowMin) clamped to [70, 130].
ThresholdIsFlooredHeuristic ==
    (AdaptiveFrame /\ Len(page.kneeWindow) >= 10) =>
        LET spread == IF WindowMax - WindowMin < 1 THEN 1 ELSE WindowMax - WindowMin
        IN  stroke.catchAngleMax = Clamped(Div(100 * WindowMin + 35 * spread, 100))

\* a full flat window at 100 degrees gives the threshold 100.35
FlatWindowThreshold ==
    /\ AdaptiveFrame
    /\ Len(page.kneeWindow) >= 10
    /\ WindowMin = 100 /\ WindowMax = 100
    /\ stroke.catchAngleMax = Div(10035, 100)

----------------------------------------------------------------------------
(* Reset and landmark smoothing *)

\* the joints onResults smooths
SmoothedJoints == {"hip", "knee", "ankle", "shoulder"}

\* C16: after resetState() the detector's angle, derivative, catch and
\* finish histories are empty and its streak is zero, the knee-angle window
\* is empty, and no joint has EMA state.
ResetIsWholesale ==
    lastCall.op = "resetState" =>
        /\ stroke.angles = <<>> /\ stroke.deriv = <<>>
        /\ stroke.catches = <<>> /\ stroke.finishes = <<>>
        /\ stroke.posStreak = 0
        /\ page.kneeWindow = <<>>
        /\ \A j \in Joints : page.lmPrev[j] = NullPt

\* C18: a frame that brings the first sample p of a joint stores p as the
\* joint's state and returns p.
FirstSampleSeeds ==
    [][ lastCall'.op = "onResults" =>
            \A j \in SmoothedJoints :
                page.lmPrev[j] = NullPt =>
                    /\ page'.lmPrev[j] = lastCall'.lm[j]
                    /\ page'.joints[j] = lastCall'.lm[j] ]_vars

\* the first frame was handled with a landmark alpha of 0.2 and the hip is
\* stored and returned as it was measured
FirstFrameSeeded ==
    /\ lastCall.op = "onResults"
    /\ page.frames = 1
    /\ page.landmarkAlpha = Fin(Div(2, 10))
    /\ page.lmPrev["hip"] = lastCall.lm.hip
    /\ page.joints["hip"] = lastCall.lm.hip

\* the landmark alpha limited to [0, 0.9], a NaN alpha counting as 0
AlphaUsed ==
    LET v == page.landmarkAlpha.v
    IN  IF ~page.landmarkAlpha.fin \/ v.n < 0 THEN Div(0, 1)
        ELSE IF 10 * v.n > 9 * v.d THEN Div(9, 10)
        ELSE v

\* a * p + (1 - a) * s for fractions a, p, s
Ema(a, p, s) ==
    Div(a.n * p.n * s.d + (a.d - a.n) * s.n * p.d, a.d * p.d * s.d)

\* C19: a frame that brings a sample p of a joint that has EMA state sets
\* that state to a * p + (1 - a) * state on each coordinate, a being the
\* landmark alpha limited to [0, 0.9], and returns it; the new state of a
\* joint depends on no other joint, and the wrist, which is not smoothed,
\* keeps its state.
SmoothingIsEma ==
    [][ lastCall'.op = "onResults" =>
            /\ \A j \in SmoothedJoints :
                   page.lmPrev[j] # NullPt =>
                       LET p == lastCall'.lm[j]
                           s == page.lmPrev[j]
                           q == Pt(Ema(AlphaUsed, p.x, s.x), Ema(AlphaUsed, p.y, s.y))
                       IN  /\ page'.lmPrev[j] = q
                           /\ page'.joints[j] = q
            /\ page'.lmPrev["wrist"] = page.lmPrev["wrist"] ]_vars

\* a later frame moved the hip with a landmark alpha of 1, which is used as
\* 0.9: the state is a tenth of the way from the sample to the old state
HipBlendedAtMaxAlpha ==
    /\ lastCall.op = "onResults"
    /\ page.frames >= 2
    /\ page.landmarkAlpha = Fin(Div(1, 1))
    /\ page.lmPrev["hip"] # lastCall.lm.hip
    /\ page.lmPrev["hip"].x = Div(21, 40)
    /\ page.joints["hip"] = page.lmPrev["hip"]

----------------------------------------------------------------------------
(* Order of the finish list *)

\* C29: the finish list is strictly increasing.
FinishesIncrease ==
    \A i \in 1..(Len(stroke.finishes) - 1) :
        stroke.finishes[i] < stroke.finishes[i + 1]

\* two finishes are recorded, and the largest sample since the last catch
\* is an earlier sample whose timestamp is already the last finish, so the
\* last update recorded nothing
FinishNotRepeated ==
    /\ Len(stroke.finishes) >= 2
    /\ Len(stroke.catches) >= 1
    /\ LET window == FinishWindow(stroke)
       IN  /\ Len(window) >= 4
           /\ MaxP(window, 2, window[1]).t = Last(stroke.finishes)
           /\ MaxP(window, 2, window[1]).t < Last(stroke.angles).t

----------------------------------------------------------------------------
(* Samples closer than the time floor *)

\* the last call handed a finite angle to update()
SampleAccepted ==
    /\ lastCall.op \in {"update", "frame"}
    /\ lastCall.angle.fin

\* C30: an accepted sample that follows the previous accepted sample by
\* less than the 1e-6 s floor is recorded in the angle history, but no
\* derivative sample is recorded for it and the positive-streak counter
\* keeps its value.
NoDerivativeBelowFloor ==
    [][ ( /\ SampleAccepted'
          /\ Len(stroke.angles) >= 1
          /\ Last(stroke'.angles).t - Last(stroke.angles).t < DtFloor ) =>
            /\ Len(stroke'.angles) = Len(stroke.angles) + 1
            /\ stroke'.deriv = stroke.deriv
            /\ stroke'.posStreak = stroke.posStreak ]_vars

----------------------------------------------------------------------------
(* Where catches fall on the angle curve *)

\* C27: for every recorded catch, the accepted sample that follows the
\* catch sample is not smaller than the catch sample.
CatchIsAtBottom ==
    \A i \in 1..Len(stroke.catches) :
        \A k \in 1..(Len(stroke.angles) - 1) :
            stroke.angles[k].t = stroke.catches[i] =>
                stroke.angles[k + 1].a >= stroke.angles[k].a

----------------------------------------------------------------------------
(* The two catch rules *)

\* the detector as the primary rule sees it on the last update: the sample
\* is pushed and the streak counter updated
AtPrimary(s, angle) ==
    Streak(PushSample(s, Last(stroke'.angles).t, angle.v))

\* C26: on no update do the conditions of the primary rule hold together,
\* so every catch is appended by the fallback rule.
PrimaryNeverFires ==
    [][ SampleAccepted' =>
            LET t == Last(stroke'.angles).t
                s == AtPrimary(stroke, lastCall'.angle)
            IN  /\ ~PrimaryFires(s, t)
                /\ stroke'.catches # stroke.catches => FallbackFires(s, t) ]_vars

\* the derivative turned from negative to non-negative under the threshold,
\* outside the refractory interval and with the streak confirmed: all of
\* the primary rule but the local minimum
TurnConfirmed ==
    /\ SampleAccepted
    /\ Len(stroke.deriv) >= 2
    /\ stroke.deriv[Len(stroke.deriv) - 1].d.n < 0
    /\ Last(stroke.deriv).d.n >= 0
    /\ smoothedAngle(stroke) # Null
    /\ SmLeq(smoothedAngle(stroke), stroke.catchAngleMax)
    /\ stroke.posStreak >= stroke.confirmFrames
    /\ Len(stroke.angles) >= stroke.windowSize
    /\ stroke.catches = <<>>


\* C25: one update() appends no more than one catch, and no two entries of
\* the catch list are within 1 ms of each other, whatever the refractory
\* interval and also after a catch at timestamp 0.
NoDuplicateCatch ==
    [][ /\ Len(stroke'.catches) <= Len(stroke.catches) + 1
        /\ \A i, j \in 1..Len(stroke'.catches) :
               i < j => Abs(stroke'.catches[j] - stroke'.catches[i]) >= DupEps ]_vars


\* of the detector after an update: the trailing mean is defined and at or
\* under the threshold, the new sample is strictly below the other samples
\* of the last windowSize, and the refractory interval since the last catch
\* that was recorded before the update has passed
ThreeHold ==
    LET a == stroke'.angles
        n == Len(a)
        k == stroke'.smooth
        w == stroke'.windowSize
        thr == stroke'.catchAngleMax
    IN  /\ n >= k
        /\ AngleSum(a, (n - k + 1)..n) * thr.d <= thr.n * k
        /\ n >= w
        /\ \A i \in (n - w + 1)..(n - 1) : a[n].a < a[i].a
        /\ \/ Len(stroke.catches) = 0
           \/ a[n].t - Last(stroke.catches) > stroke'.minCatchIntervalSec

\* the double-add guard blocks: the last catch is not at timestamp 0 and is
\* within 1 ms of the new sample
GuardBlocks ==
    /\ Len(stroke.catches) > 0
    /\ Last(stroke.catches) # 0
    /\ Abs(Last(stroke'.angles).t - Last(stroke.catches)) < DupEps

\* C24 as stated: an update with a finite angle appends a catch at t exactly
\* when the three conditions hold.
CatchIffThreeHold ==
    [][ SampleAccepted' =>
            stroke'.catches = IF ThreeHold
                              THEN Append(stroke.catches, Last(stroke'.angles).t)
                              ELSE stroke.catches ]_vars

\* C24 amended: the catch is appended exactly when the three conditions hold
\* and the double-add guard does not block.
CatchIffGuardPasses ==
    [][ SampleAccepted' =>
            stroke'.catches = IF ThreeHold /\ ~GuardBlocks
                              THEN Append(stroke.catches, Last(stroke'.angles).t)
                              ELSE stroke.catches ]_vars

\* the fourth sample is under the threshold, below the two before it and
\* 0.7 ms after the only catch, with a refractory interval of 0.5 ms: the
\* three conditions hold and no catch was appended
CatchHeldBackByGuard ==
    /\ SampleAccepted
    /\ Len(stroke.angles) = 4
    /\ Len(stroke.catches) = 1
    /\ stroke.catches[1] = stroke.angles[3].t
    /\ stroke.catches[1] # 0
    /\ stroke.angles[4].a < stroke.angles[3].a
    /\ stroke.angles[4].a < stroke.angles[2].a
    /\ stroke.angles[4].t - stroke.catches[1] > stroke.minCatchIntervalSec
    /\ stroke.angles[4].t - stroke.catches[1] < DupEps

----------------------------------------------------------------------------
(* The latest finish *)

\* the timestamp of the earliest largest sample of a non-empty sequence w
FirstMaxTime(w) ==
    LET top == SetMax({w[i].a : i \in 1..Len(w)})
        first == CHOOSE i \in 1..Len(w) :
                     w[i].a = top /\ \A j \in 1..(i - 1) : w[j].a < top
    IN  w[first].t

\* C28 as stated: after an update that leaves a catch recorded, the last
\* finish is the timestamp of the earliest largest sample at or after the
\* last catch, also on the update that records the catch and the next one.
LastFinishIsMaxSinceCatch ==
    (SampleAccepted /\ Len(stroke.catches) >= 1) =>
        /\ Len(stroke.finishes) >= 1
        /\ Last(stroke.finishes) = FirstMaxTime(SinceCatch)

\* C28 amended: the same once three or more samples lie at or after the
\* last catch; with fewer the update records no finish.
LastFinishIsMaxOfThree ==
    [][ (SampleAccepted' /\ Len(stroke'.catches) >= 1) =>
            LET SinceCatchNext ==
                    SelectSeq(stroke'.angles,
                              LAMBDA p : p.t >= Last(stroke'.catches))
            IN  IF Len(SinceCatchNext) >= 3
                THEN /\ Len(stroke'.finishes) >= 1
                     /\ Last(stroke'.finishes) = FirstMaxTime(SinceCatchNext)
                ELSE stroke'.finishes = stroke.finishes ]_vars

\* three or more samples lie at or after the last catch, the largest is
\* later than the catch, and its timestamp is the last finish
FinishAtMaxSinceCatch ==
    /\ SampleAccepted
    /\ Len(stroke.catches) >= 1
    /\ Len(SinceCatch) >= 3
    /\ Len(stroke.finishes) >= 1
    /\ Last(stroke.finishes) = FirstMaxTime(SinceCatch)
    /\ Last(stroke.finishes) > Last(stroke.catches)

----------------------------------------------------------------------------
(* Geometry *)

\* C21: angleAt(a, b, c) is 90 degrees whenever the rays from b to a and
\* from b to c are perpendicular.
PerpendicularIsNinety ==
    lastCall.op = "angleAt" =>
        LET a == lastCall.a
            b == lastCall.b
            c == lastCall.c
            perpendicular ==
                /\ a # b /\ c # b
                /\ (a.x - b.x) * (c.x - b.x) + (a.y - b.y) * (c.y - b.y) = 0
        IN  IF perpendicular THEN ret = Fin(90) ELSE TRUE

\* the call of the unit test: a = (0, 1), b = (0, 0), c = (1, 0)
RightAngleMeasured ==
    /\ lastCall = [op |-> "angleAt", a |-> [x |-> 0, y |-> 1],
                   b |-> [x |-> 0, y |-> 0], c |-> [x |-> 1, y |-> 0]]
    /\ ret = Fin(90)

\* C22: angleToVertical(p1, p2) is 0 degrees for a segment whose direction
\* is (0, -1).
UprightIsZero ==
    ( /\ lastCall.op = "angleToVertical"
      /\ lastCall.p2.x = lastCall.p1.x
      /\ lastCall.p2.y < lastCall.p1.y ) =>
        ret = Fin(0)

\* the call of the unit test: p1 = (0, 1), p2 = (0, 0)
UprightMeasured ==
    /\ lastCall = [op |-> "angleToVertical", p1 |-> [x |-> 0, y |-> 1],
                   p2 |-> [x |-> 0, y |-> 0]]
    /\ ret = Fin(0)

\* C23: the fold of angleToVertical is in [0, 180] for every direction
\* theta in [-180, 180], so every segment of non-zero length is measured in
\* [0, 180].
VerticalInRange ==
    /\ \A theta \in (-180)..180 :
           VerticalFold(theta) >= 0 /\ VerticalFold(theta) <= 180
    /\ (lastCall.op = "angleToVertical" /\ lastCall.p1 # lastCall.p2) =>
           ret.fin /\ ret.v >= 0 /\ ret.v <= 180

\* a segment that points straight down (theta = 90) is measured as 180,
\* where the fold is -180 before the last Math.abs
DownwardIsOneEighty ==
    /\ lastCall.op = "angleToVertical"
    /\ lastCall.p2.x = lastCall.p1.x
    /\ lastCall.p2.y > lastCall.p1.y
    /\ ret = Fin(180)

----------------------------------------------------------------------------
(* The adaptive window *)

RECURSIVE Recent(_, _, _)
\* the samples of the log from index i on that are no older than tMin, in
\* the order of the log, as entries of the window
Recent(log, i, tMin) ==
    IF i > Len(log) THEN <<>>
    ELSE IF log[i].t >= tMin
         THEN <<[t |-> log[i].t, angle |-> log[i].a]>> \o Recent(log, i + 1, tMin)
         ELSE Recent(log, i + 1, tMin)

----------------------------------------------------------------------------
(* The stroke rate *)

\* C34: with minCatchIntervalSec >= 0.1 s, summary().spm is 0 exactly when
\* fewer than 2 catches exist, and with 2 catches or more it is positive and
\* strictly below 60 / minCatchIntervalSec.
SpmBoundedByRefractory ==
    (SummaryReturned /\ stroke.minCatchIntervalSec >= MinPeriod) =>
        /\ (ret.spm = Div(0, 1)) <=> (Len(stroke.catches) < 2)
        /\ Len(stroke.catches) >= 2 =>
               /\ ret.spm.n > 0
               /\ ~FLeq(Div(UsPerMinute, stroke.minCatchIntervalSec), ret.spm)

\* C34 witness: summary() has returned a positive spm for two catches
\* made with the default refractory interval of 0.9 s
SpmOfTwoCatches ==
    /\ SummaryReturned
    /\ stroke.minCatchIntervalSec = Sec(9)
    /\ Len(stroke.catches) = 2
    /\ ret.spm.n > 0

----------------------------------------------------------------------------
(* A landmark alpha of 0 *)

\* the joints that onResults smooths
Smoothed == {"hip", "knee", "ankle", "shoulder"}

\* C35: with a landmark alpha of 0 or NaN, every frame after the first
\* leaves the smoothed position of each joint where the previous frame left
\* it, which is the first sample of the joint, whatever the raw landmarks
\* are; the knee angles fed to the detector since the page loaded are all
\* equal (all not finite, or all the same finite angle).
ZeroAlphaFreezesJoints ==
    [][(/\ lastCall'.op = "onResults"
        /\ page.frames >= 1
        /\ (~page.landmarkAlpha.fin \/ page.landmarkAlpha.v = Div(0, 1))) =>
          /\ \A j \in Smoothed :
                 /\ page'.joints[j] = page.joints[j]
                 /\ page'.lmPrev[j] = page.joints[j]
          /\ Len(page'.kneeWindow) \in {0, page'.frames}
          /\ \A i \in 1..Len(page'.kneeWindow) :
                 page'.kneeWindow[i].angle = page'.kneeWindow[1].angle]_vars

\* C35 witness: the third frame brings a folded pose (knee angle 45) after
\* a compressed one (knee angle 90) while the smoothed joints still hold the
\* extended first pose and the detector was fed 180 degrees three times
RawMovedJointsStayed ==
    /\ lastCall.op = "onResults"
    /\ page.frames = 3
    /\ lastCall.lm = Folded
    /\ \A j \in Smoothed : page.joints[j] = Extended[j]
    /\ lastCall.angle = Fin(180)
    /\ Len(page.kneeWindow) = 3

----------------------------------------------------------------------------
(* The frame loop *)

\* the loop callbacks that are requested or due: the live chains of loop()
Chains == page.raf + page.due

\* the detector holds its samples in non-decreasing order of timestamp
SamplesInOrder ==
    \A i \in 1..(Len(stroke.angles) - 1) :
        stroke.angles[i].t <= stroke.angles[i + 1].t

\* C33: under every interleaving of the start and stop handlers with the
\* iterations of the frame loop, at most one chain of loop() is alive and
\* the detector receives its samples in non-decreasing order of timestamp.
OneLoopChainInOrder == Chains <= 1 /\ SamplesInOrder

\* C32: while analysis runs and a landmarker exists, a loop callback is
\* requested or due, so that frames go on being delivered after the
\* landmarker was recreated.
LoopSurvivesRecreate ==
    (page.running /\ page.landmarker) => Chains >= 1

====
